---- MODULE Spec2Model ----
(***************************************************************************)
(* A model of the upload-only SFTP server of src/server.go: the receive    *)
(* loop and the worker pool of Serve, the dispatcher of sftpServerWorker,  *)
(* the handle table (nextHandle, closeHandle, getHandle, getHandleDirInfo) *)
(* and the handlers of handlePacket and of the respond methods.            *)
(*                                                                         *)
(* Strings that the code inspects byte by byte (paths, handles) are        *)
(* sequences of one-character strings, so that path.Clean, HasPrefix,      *)
(* slicing and strconv.Itoa are computed as the code computes them.        *)
(***************************************************************************)
EXTENDS Integers, Sequences, FiniteSets, TLC

(***************************************************************************)
(* Bounds of the model.                                                    *)
(***************************************************************************)
\* packets the client sends on one connection before it goes away
MaxPackets == 2
\* packets of the open/close workload (SpecHandles)
MaxHandlePackets == 3
\* packets of the open workload (SpecOpen)
MaxOpenPackets == 1
\* packets of the write workload (SpecWrite)
MaxWritePackets == 2
\* packets of the directory-listing workload (SpecDir)
MaxDirPackets == 3
\* workers of the pool in the specifications that explore N > 1
MaxWorkers == 2
\* packets of the pool workload (SpecPool)
MaxPoolPackets == 3
\* packets of the shutdown workload (FairSpecShutdown)
MaxShutdownPackets == 2
\* packets of the stat workload (SpecStat)
MaxStatPackets == 1
\* request IDs of the error-translation workload (SpecTranslate)
MaxErrorID == 3
MaxRacePackets == 3
\* width in bits of the scaled-down stand-in for the 64-bit offset words
OffsetBits == 4

\* src/server.go:22
sftpServerWorkerCount == 1

(***************************************************************************)
(* Strings as sequences of characters.                                     *)
(***************************************************************************)
HasPrefix(s, prefix) ==
    /\ Len(s) >= Len(prefix)
    /\ SubSeq(s, 1, Len(prefix)) = prefix

ContainsRune(s, c) == \E i \in 1..Len(s) : s[i] = c

\* strings.Index for a one-character separator: 0-based, -1 when absent
Index(s, c) ==
    IF ContainsRune(s, c)
    THEN (CHOOSE i \in 1..Len(s) : s[i] = c /\ \A j \in 1..(i-1) : s[j] # c) - 1
    ELSE -1

\* s[n:] of Go, n 0-based
SliceFrom(s, n) == SubSeq(s, n + 1, Len(s))

\* s[:n] of Go
SliceTo(s, n) == SubSeq(s, 1, n)

Digit(d) == <<"0", "1", "2", "3", "4", "5", "6", "7", "8", "9">>[d + 1]

RECURSIVE Itoa(_)
\* strconv.Itoa on a non-negative int
Itoa(n) == IF n < 10 THEN <<Digit(n)>> ELSE Itoa(n \div 10) \o <<Digit(n % 10)>>

RECURSIVE SplitSlash(_)
\* the elements of a path between its slashes (empty elements included)
SplitSlash(s) ==
    LET i == Index(s, "/")
    IN  IF i = -1 THEN <<s>>
        ELSE <<SliceTo(s, i)>> \o SplitSlash(SliceFrom(s, i + 1))

RECURSIVE JoinSlash(_)
JoinSlash(elems) ==
    IF elems = <<>> THEN <<>>
    ELSE IF Len(elems) = 1 THEN elems[1]
    ELSE elems[1] \o <<"/">> \o JoinSlash(Tail(elems))

RECURSIVE CleanElems(_, _, _)
\* the element stack of path.Clean: "." and empty elements are dropped, ".."
\* removes the element before it, is kept in front of a relative path and is
\* dropped at the root
CleanElems(elems, out, rooted) ==
    IF elems = <<>> THEN out
    ELSE LET e == Head(elems)
             rest == Tail(elems)
         IN  IF e = <<>> \/ e = <<".">>
             THEN CleanElems(rest, out, rooted)
             ELSE IF e = <<".", ".">>
             THEN IF out # <<>> /\ out[Len(out)] # <<".", ".">>
                  THEN CleanElems(rest, SubSeq(out, 1, Len(out) - 1), rooted)
                  ELSE IF rooted
                  THEN CleanElems(rest, out, rooted)
                  ELSE CleanElems(rest, Append(out, e), rooted)
             ELSE CleanElems(rest, Append(out, e), rooted)

\* path.Clean of the Go standard library
Clean(p) ==
    IF p = <<>> THEN <<".">>
    ELSE LET rooted == p[1] = "/"
             out == CleanElems(SplitSlash(p), <<>>, rooted)
         IN  IF rooted THEN <<"/">> \o JoinSlash(out)
             ELSE IF out = <<>> THEN <<".">> ELSE JoinSlash(out)

(***************************************************************************)
(* Protocol constants: packet types, open flags, status codes.             *)
(***************************************************************************)
\* the packet types the switch of sftpServerWorker decodes
DecodedTypes ==
    {"INIT", "LSTAT", "OPEN", "CLOSE", "READ", "WRITE", "FSTAT", "SETSTAT",
     "FSETSTAT", "OPENDIR", "READDIR", "REMOVE", "MKDIR", "RMDIR", "REALPATH",
     "STAT", "RENAME", "READLINK", "SYMLINK", "EXTENDED"}

\* a type byte the switch has no case for (a reply type such as ssh_FXP_STATUS)
UndecodedTypes == {"STATUS"}

\* a server that allows every type it decodes
allowedPacketTypesAll(t) == TRUE

allowedPacketTypes(t) ==
    t \in {"INIT", "OPEN", "CLOSE", "WRITE", "STAT", "LSTAT", "OPENDIR",
           "READDIR", "SETSTAT", "REALPATH"}

\* a switch that never clears `readonly`
switchReadonlyAlways(t) == TRUE

\* the value of `readonly` the switch of sftpServerWorker leaves for a type
\* (OPEN is settled later from its flags)
switchReadonly(t) ==
    t \notin {"WRITE", "SETSTAT", "FSETSTAT", "REMOVE", "MKDIR", "RMDIR",
              "RENAME", "SYMLINK"}

ssh_FXF_READ == "READ"
ssh_FXF_WRITE == "WRITE"
ssh_FXF_APPEND == "APPEND"
ssh_FXF_CREAT == "CREAT"

\* p.Pflags & f != 0 for every f of flags; a flag word is the set of its bits
hasPflags(p, flags) == \A f \in flags : f \in p.Pflags

openReadonly(p) == ~hasPflags(p, {ssh_FXF_WRITE})

(***************************************************************************)
(* Errors and their translation.                                           *)
(***************************************************************************)
NoError == [kind |-> "nil", errno |-> "0", text |-> ""]
EOF == [kind |-> "EOF", errno |-> "0", text |-> "EOF"]

ErrnoText(e) ==
    CASE e = "ENOENT" -> "no such file or directory"
      [] e = "EPERM" -> "operation not permitted"
      [] e = "EBADF" -> "bad file descriptor"
      [] e = "EFBIG" -> "file too large"
      [] e = "EACCES" -> "permission denied"
      [] e = "ENOTDIR" -> "not a directory"
      [] e = "EMFILE" -> "too many open files"
      [] e = "EIO" -> "input/output error"
      [] OTHER -> "errno"

\* a syscall.Errno
Errno(e) == [kind |-> "Errno", errno |-> e, text |-> ErrnoText(e)]
\* an *os.PathError around a syscall.Errno
PathError(e) == [kind |-> "PathError", errno |-> e, text |-> ErrnoText(e)]
\* an *os.PathError around an error that is no errno
PathErrorText(t) == [kind |-> "PathErrorOther", errno |-> "0", text |-> t]
\* any other error value
OtherError(t) == [kind |-> "Other", errno |-> "0", text |-> t]

translateErrno(errno) ==
    CASE errno = "0" -> "OK"
      [] errno = "ENOENT" -> "NO_SUCH_FILE"
      [] errno = "EPERM" -> "PERMISSION_DENIED"
      [] OTHER -> "FAILURE"

sshFxpStatusPacket(id, code, msg) ==
    [kind |-> "STATUS", ID |-> id, Code |-> code, msg |-> msg]

statusFromError(p, err) ==
    IF err.kind = "nil" THEN sshFxpStatusPacket(p.ID, "OK", "")
    ELSE IF err.kind = "EOF" THEN sshFxpStatusPacket(p.ID, "EOF", err.text)
    ELSE IF err.kind = "Errno"
         THEN sshFxpStatusPacket(p.ID, translateErrno(err.errno), err.text)
    ELSE IF err.kind = "PathError"
         THEN sshFxpStatusPacket(p.ID, translateErrno(err.errno), err.text)
    ELSE sshFxpStatusPacket(p.ID, "FAILURE", err.text)

\* the status packet sendErrorCode writes
statusFromCode(p, code) == sshFxpStatusPacket(p.ID, code, "")

sshFxpHandlePacket(id, handle) ==
    [kind |-> "HANDLE", ID |-> id, Handle |-> handle]

sshFxpStatResponse(id, name) ==
    [kind |-> "ATTRS", ID |-> id, name |-> name, mode |-> "ModeDir|0755"]

sshFxpNamePacket(id, names) == [kind |-> "NAME", ID |-> id, Names |-> names]

sshFxVersionPacket == [kind |-> "VERSION"]

(***************************************************************************)
(* Fixed-width integers: the offset of a write is an unsigned word that    *)
(* the handler converts to a signed word of the same width.                *)
(***************************************************************************)
RECURSIVE Pow2(_)
Pow2(n) == IF n = 0 THEN 1 ELSE 2 * Pow2(n - 1)

WordModulus == Pow2(OffsetBits)
MaxSigned == Pow2(OffsetBits - 1) - 1

\* int64(x) of an unsigned word, and the wrap of a signed sum
toSigned(x) ==
    LET r == x % WordModulus
    IN  IF r > MaxSigned THEN r - WordModulus ELSE r

(***************************************************************************)
(* The state of one Server and of one call of Serve.                       *)
(***************************************************************************)
VARIABLES
    \* configuration, fixed by NewServer
    readOnly,        \* svr.readOnly
    uploadPath,      \* svr.uploadPath
    fileSizeLimit,   \* svr.fileSizeLimit
    fileNameMapper,  \* svr.fileNameMapper # nil
    uploadNotifier,  \* svr.uploadNotifier # nil
    readdirHook,     \* svr.readdirHook # nil
    nWorkers,        \* the number of worker goroutines and the queue's capacity
    \* the handle table
    openFiles,       \* handle -> the *os.File: [fid, name]
    openDirs,        \* handle -> the *openDirInfo, a key of dirInfos
    handleCount,
    dirInfos,        \* the openDirInfo objects: [name, read]
    \* the files behind the handles and what happened to them
    closedFiles,     \* fids of the files on which Close was called
    fileIO,          \* the I/O calls made on files, in order: [op, fid, off, len, closed]
    notified,        \* the names the upload notifier was called with, in order
    \* Serve
    servePc,         \* where the receive loop of Serve stands
    pending,         \* the packet recvPacket returned, not yet pushed
    nrecv,           \* packets read from the transport so far
    pktChan,         \* the buffered channel
    chanClosed,
    connClosed,      \* svr.conn.Close() was called
    \* the workers
    wk,              \* per worker: pc, the packet, the locals of its handler
    sent             \* the packets written to the transport, in order

config == <<readOnly, uploadPath, fileSizeLimit, fileNameMapper, uploadNotifier,
            readdirHook, nWorkers>>
table == <<openFiles, openDirs, handleCount, dirInfos>>
files == <<closedFiles, fileIO, notified>>
serve == <<servePc, pending, nrecv, pktChan, chanClosed>>
vars == <<config, table, files, serve, connClosed, wk, sent>>

Workers == 1..nWorkers

\* make(map[string]...)
EmptyMap == [h \in {} |-> 0]

\* an *os.File: the model names it by the number of the handle it was opened for
File(fid, name) == [fid |-> fid, name |-> name]
NoFile == File(0, <<>>)
DevNull == <<"/", "d", "e", "v", "/", "n", "u", "l", "l">>

\* a decoded request: the fields of the sshFxp...Packet structs that the
\* handlers read (the others keep their zero values)
Packet(type) ==
    [type |-> type, wellFormed |-> TRUE, ID |-> 0, Path |-> <<>>, Pflags |-> {},
     Handle |-> <<>>, Offset |-> 0, DataLen |-> 0]
NoPacket == Packet("none")
NoResponse == [kind |-> "none"]

\* what the filename-mapping step of an open left in (fileName, ok, err)
NoMapping == [name |-> <<>>, ok |-> FALSE, err |-> FALSE]

IdleWorker ==
    [pc |-> "idle", pkt |-> NoPacket, resp |-> NoResponse, f |-> NoFile,
     di |-> 0, mapped |-> NoMapping, err |-> NoError, failed |-> FALSE]

(***************************************************************************)
(* NewServer: the options are applied, then the upload path is normalised. *)
(***************************************************************************)
normalizeUploadPath(path) ==
    IF path = <<>> THEN <<"/">>
    ELSE LET c == Clean(path)
         IN  IF Len(c) > 1 /\ c[Len(c)] = "/" THEN SliceTo(c, Len(c) - 1) ELSE c

\* Options: the option values handed to NewServer; n: the size of the pool
NewServer(Options, n) ==
    /\ \E o \in Options :
          /\ readOnly = o.readOnly
          /\ uploadPath = normalizeUploadPath(o.uploadPath)
          /\ fileSizeLimit = o.fileSizeLimit
          /\ fileNameMapper = o.fileNameMapper
          /\ uploadNotifier = o.uploadNotifier
          /\ readdirHook = o.readdirHook
    /\ nWorkers = n
    /\ openFiles = EmptyMap
    /\ openDirs = EmptyMap
    /\ handleCount = 0
    /\ dirInfos = EmptyMap
    /\ closedFiles = {}
    /\ fileIO = <<>>
    /\ notified = <<>>
    /\ servePc = "recv"
    /\ pending = NoPacket
    /\ nrecv = 0
    /\ pktChan = <<>>
    /\ chanClosed = FALSE
    /\ connClosed = FALSE
    /\ wk = [w \in 1..n |-> IdleWorker]
    /\ sent = <<>>

(***************************************************************************)
(* The handle table.                                                       *)
(***************************************************************************)
\* a map with one more key (m[k] = v of Go)
MapPut(m, k, v) == [x \in DOMAIN m \cup {k} |-> IF x = k THEN v ELSE m[x]]
\* delete(m, k)
MapDelete(m, k) == [x \in DOMAIN m \ {k} |-> m[x]]

\* nextHandle(f, dirName): the new handle and the table after it
nextHandleCount == handleCount + 1

\* a handle numbered by the size of the table instead of the counter
nextHandleStringBySize == Itoa(Cardinality(DOMAIN openFiles) + 1)

nextHandleString == Itoa(nextHandleCount)

nextHandle(name, dirName) ==
    /\ handleCount' = nextHandleCount
    /\ openFiles' = MapPut(openFiles, nextHandleString, File(nextHandleCount, name))
    /\ openDirs' = IF dirName # <<>>
                   THEN MapPut(openDirs, nextHandleString, nextHandleCount)
                   ELSE openDirs
    /\ dirInfos' = IF dirName # <<>>
                   THEN MapPut(dirInfos, nextHandleCount,
                               [name |-> dirName, read |-> FALSE])
                   ELSE dirInfos

\* a closeHandle that forgets the isDir test
closeNotificationsAnyHandle(handle) ==
    IF uploadNotifier THEN <<openFiles[handle].name>> ELSE <<>>

\* the names closeHandle hands to the upload notifier for a handle of the table
closeNotifications(handle) ==
    IF uploadNotifier /\ handle \notin DOMAIN openDirs
    THEN <<openFiles[handle].name>>
    ELSE <<>>

\* closeHandle(handle); closeErr is what f.Close() returns. The result is the
\* error closeHandle returns.
closeHandleResult(handle, closeErr) ==
    IF handle \in DOMAIN openFiles THEN closeErr ELSE Errno("EBADF")

closeHandle(handle) ==
    IF handle \in DOMAIN openFiles
    THEN /\ openFiles' = MapDelete(openFiles, handle)
         /\ openDirs' = MapDelete(openDirs, handle)
         /\ closedFiles' = closedFiles \cup {openFiles[handle].fid}
         /\ notified' = notified \o closeNotifications(handle)
    ELSE UNCHANGED <<openFiles, openDirs, closedFiles, notified>>

\* an I/O call on a file, as the log keeps it
IOCall(op, f, off, len) ==
    [op |-> op, fid |-> f.fid, off |-> off, len |-> len, closed |-> f.fid \in closedFiles]

\* getHandle(handle): (f, ok)
getHandleOk(handle) == handle \in DOMAIN openFiles
\* getHandleDirInfo(handle): (di, ok)
getHandleDirInfoOk(handle) == handle \in DOMAIN openDirs

\* a test that compares characters, not path elements
isUploadDirOrAncestorNoSlash(dir) ==
    \/ dir = uploadPath
    \/ dir = <<"/">>
    \/ HasPrefix(uploadPath, dir)

isUploadDirOrAncestor(dir) ==
    \/ dir = uploadPath
    \/ dir = <<"/">>
    \/ HasPrefix(uploadPath, dir \o <<"/">>)

(***************************************************************************)
(* Serve: the receive loop, the shutdown, the clean-up.                    *)
(***************************************************************************)
\* recvPacket returns a packet: one of Pkts, numbered by the client in the
\* order of sending. max bounds the packets of the run.
ServeRecvPacket(Pkts, max) ==
    /\ servePc = "recv"
    /\ ~connClosed
    /\ nrecv < max
    /\ \E p \in Pkts : pending' = [p EXCEPT !.ID = nrecv + 1]
    /\ nrecv' = nrecv + 1
    /\ servePc' = "push"
    /\ UNCHANGED <<config, table, files, pktChan, chanClosed, connClosed, wk, sent>>

\* recvPacket returns an error: the transport failed, the client went away,
\* or a worker closed the connection
ServeRecvFail ==
    /\ servePc = "recv"
    /\ servePc' = "close"
    /\ UNCHANGED <<config, table, files, pending, nrecv, pktChan, chanClosed,
                   connClosed, wk, sent>>

\* a queue that takes one packet too many and hands out the newest first
ServePushFront ==
    /\ servePc = "push"
    /\ Len(pktChan) <= nWorkers
    /\ pktChan' = <<pending>> \o pktChan
    /\ pending' = NoPacket
    /\ servePc' = "recv"
    /\ UNCHANGED <<config, table, files, nrecv, chanClosed, connClosed, wk, sent>>

\* svr.pktChan <- rxPacket{...}: blocks while the buffer is full
ServePush ==
    /\ servePc = "push"
    /\ Len(pktChan) < nWorkers
    /\ pktChan' = Append(pktChan, pending)
    /\ pending' = NoPacket
    /\ servePc' = "recv"
    /\ UNCHANGED <<config, table, files, nrecv, chanClosed, connClosed, wk, sent>>

\* close(svr.pktChan)
ServeCloseChan ==
    /\ servePc = "close"
    /\ chanClosed' = TRUE
    /\ servePc' = "wait"
    /\ UNCHANGED <<config, table, files, pending, nrecv, pktChan, connClosed, wk, sent>>

\* a Serve that does not wait for its workers
ServeWaitForNone ==
    /\ servePc = "wait"
    /\ servePc' = "cleanup"
    /\ UNCHANGED <<config, table, files, pending, nrecv, pktChan, chanClosed,
                   connClosed, wk, sent>>

\* wg.Wait()
ServeWait ==
    /\ servePc = "wait"
    /\ \A w \in Workers : wk[w].pc = "exited"
    /\ servePc' = "cleanup"
    /\ UNCHANGED <<config, table, files, pending, nrecv, pktChan, chanClosed,
                   connClosed, wk, sent>>

\* the files the loop over svr.openFiles closes
leftOpenFids == {openFiles[h].fid : h \in DOMAIN openFiles}

\* "close any still-open files", then return
ServeCleanup ==
    /\ servePc = "cleanup"
    /\ closedFiles' = closedFiles \cup leftOpenFids
    /\ servePc' = "done"
    /\ UNCHANGED <<config, table, fileIO, notified, pending, nrecv, pktChan,
                   chanClosed, connClosed, wk, sent>>

(***************************************************************************)
(* sftpServerWorker: take a packet, decode it, gate it, hand it over.      *)
(***************************************************************************)
\* worker w of the pool stands at pc
at(w, pc) == w \in Workers /\ wk[w].pc = pc

\* the worker returns an error: the goroutine closes the connection and ends
workerFails(w) ==
    /\ wk' = [wk EXCEPT ![w] = [IdleWorker EXCEPT !.pc = "exited", !.failed = TRUE]]
    /\ connClosed' = TRUE

\* the handler has its response: the worker goes on to write it
respond(w, resp) == wk' = [wk EXCEPT ![w].resp = resp, ![w].pc = "send"]

\* for p := range svr.pktChan: the channel is closed and drained
WorkerExit(w) ==
    /\ at(w, "idle")
    /\ pktChan = <<>>
    /\ chanClosed
    /\ wk' = [wk EXCEPT ![w].pc = "exited"]
    /\ UNCHANGED <<config, table, files, serve, connClosed, sent>>

\* a classification that forgets the flags of an open
packetReadonlySwitchOnly(p) == switchReadonly(p.type)

\* the classification after the type switch on the decoded packet
packetReadonly(p) ==
    IF p.type = "OPEN" THEN openReadonly(p) ELSE switchReadonly(p.type)

\* a dispatcher for which an unsupported type is an error of the worker
dispatchUnsupportedFatal(p) ==
    IF p.type \notin DecodedTypes THEN "fatal"
    ELSE IF ~p.wellFormed THEN "fatal"
    ELSE IF ~allowedPacketTypes(p.type) THEN "fatal"
    ELSE IF ~packetReadonly(p) /\ readOnly THEN "denied"
    ELSE "handle"

\* what the worker does with a packet before any handler runs:
\* "fatal", "unsupported", "denied" or "handle"
dispatch(p) ==
    IF p.type \notin DecodedTypes THEN "fatal"
    ELSE IF ~p.wellFormed THEN "fatal"
    ELSE IF ~allowedPacketTypes(p.type) THEN "unsupported"
    ELSE IF ~packetReadonly(p) /\ readOnly THEN "denied"
    ELSE "handle"

\* for p := range svr.pktChan: a packet is taken, decoded and gated; what is
\* left for a later step is the handler, or the writing of the refusal
WorkerDispatch(w) ==
    /\ at(w, "idle")
    /\ pktChan # <<>>
    /\ pktChan' = Tail(pktChan)
    /\ LET p == Head(pktChan)
           d == dispatch(p)
           taken == [IdleWorker EXCEPT !.pkt = p]
       IN  CASE d = "fatal" -> workerFails(w)
             [] d = "unsupported" ->
                  /\ wk' = [wk EXCEPT ![w] = [taken EXCEPT
                                !.resp = statusFromCode(p, "OP_UNSUPPORTED"),
                                !.pc = "send"]]
                  /\ UNCHANGED connClosed
             [] d = "denied" ->
                  /\ wk' = [wk EXCEPT ![w] = [taken EXCEPT
                                !.resp = statusFromError(p, Errno("EPERM")),
                                !.pc = "send"]]
                  /\ UNCHANGED connClosed
             [] OTHER ->
                  /\ wk' = [wk EXCEPT ![w] = [taken EXCEPT !.pc = "handle"]]
                  /\ UNCHANGED connClosed
    /\ UNCHANGED <<config, table, files, servePc, pending, nrecv, chanClosed, sent>>

\* sendPacket: the response is written to the transport, or the write fails
\* and the worker returns the error
WorkerSend(w) ==
    /\ at(w, "send")
    /\ \E ok \in (IF connClosed THEN {FALSE} ELSE BOOLEAN) :
          IF ok
          THEN /\ sent' = Append(sent, wk[w].resp)
               /\ wk' = [wk EXCEPT ![w] = IdleWorker]
               /\ UNCHANGED connClosed
          ELSE /\ workerFails(w)
               /\ UNCHANGED sent
    /\ UNCHANGED <<config, table, files, serve>>

(***************************************************************************)
(* handlePacket and the respond methods.                                   *)
(***************************************************************************)
\* return s.sendError(p, err), for a handler that holds its error in err
SendError(w) ==
    /\ at(w, "senderror")
    /\ respond(w, statusFromError(wk[w].pkt, wk[w].err))
    /\ UNCHANGED <<config, table, files, serve, connClosed, sent>>

handling(w, types) == at(w, "handle") /\ wk[w].pkt.type \in types

\* an init handler that returns nil without writing the version packet
HandleInitNoReply(w) ==
    /\ handling(w, {"INIT"})
    /\ wk' = [wk EXCEPT ![w] = IdleWorker]
    /\ UNCHANGED <<config, table, files, serve, connClosed, sent>>

\* case *sshFxInitPacket
HandleInit(w) ==
    /\ handling(w, {"INIT"})
    /\ respond(w, sshFxVersionPacket)
    /\ UNCHANGED <<config, table, files, serve, connClosed, sent>>

\* doStat(p, reqPath)
doStat(p) ==
    LET reqPath == Clean(p.Path)
    IN  IF isUploadDirOrAncestor(reqPath)
        THEN sshFxpStatResponse(p.ID, reqPath)
        ELSE statusFromError(p, Errno("ENOENT"))

\* case *sshFxpStatPacket, *sshFxpLstatPacket
HandleStat(w) ==
    /\ handling(w, {"STAT", "LSTAT"})
    /\ respond(w, doStat(wk[w].pkt))
    /\ UNCHANGED <<config, table, files, serve, connClosed, sent>>

\* what f.Close() can return
CloseErrors == {NoError, PathError("EIO")}

\* case *sshFxpClosePacket
HandleClose(w) ==
    /\ handling(w, {"CLOSE"})
    /\ LET p == wk[w].pkt
       IN  /\ closeHandle(p.Handle)
           /\ \E closeErr \in (IF p.Handle \in DOMAIN openFiles
                               THEN CloseErrors ELSE {NoError}) :
                 respond(w, statusFromError(p, closeHandleResult(p.Handle, closeErr)))
    /\ UNCHANGED <<config, handleCount, dirInfos, fileIO, serve, connClosed, sent>>

realpath(path) ==
    IF path = <<>> \/ path[1] # "/"
    THEN Clean(uploadPath \o <<"/">> \o path)
    ELSE Clean(path)

\* case *sshFxpRealpathPacket
HandleRealpath(w) ==
    /\ handling(w, {"REALPATH"})
    /\ respond(w, sshFxpNamePacket(wk[w].pkt.ID, <<realpath(wk[w].pkt.Path)>>))
    /\ UNCHANGED <<config, table, files, serve, connClosed, sent>>

\* sshFxpSetstatPacket.respond
HandleSetstat(w) ==
    /\ handling(w, {"SETSTAT"})
    /\ respond(w, statusFromError(wk[w].pkt, NoError))
    /\ UNCHANGED <<config, table, files, serve, connClosed, sent>>

(***************************************************************************)
(* sshFxpOpenPacket.respond, also reached from case *sshFxpOpendirPacket.  *)
(***************************************************************************)
\* the open packet that respond sees
openRequest(p) ==
    IF p.type = "OPENDIR"
    THEN [p EXCEPT !.type = "OPEN", !.Pflags = {ssh_FXF_READ}]
    ELSE p

uploadPrefix == IF uploadPath # <<"/">> THEN uploadPath \o <<"/">> ELSE uploadPath

openFileName(p) == SliceFrom(p.Path, Len(uploadPrefix))

\* a respond that takes any path below the upload directory
openPlanAnyDepth(p) ==
    IF isUploadDirOrAncestor(Clean(p.Path)) /\ openReadonly(p) THEN "dir"
    ELSE IF ~hasPflags(p, {ssh_FXF_WRITE}) \/ hasPflags(p, {ssh_FXF_APPEND})
         THEN "OP_UNSUPPORTED"
    ELSE IF ~HasPrefix(p.Path, uploadPrefix) THEN "NO_SUCH_PATH"
    ELSE "file"

\* the branch respond takes before it touches the file system: "dir" (open
\* /dev/null for the upload directory or an ancestor), "file" (create the
\* upload file) or the status code it answers with
openPlan(p) ==
    IF isUploadDirOrAncestor(Clean(p.Path)) /\ openReadonly(p) THEN "dir"
    ELSE IF ~hasPflags(p, {ssh_FXF_WRITE}) \/ hasPflags(p, {ssh_FXF_APPEND})
         THEN "OP_UNSUPPORTED"
    ELSE IF ~HasPrefix(p.Path, uploadPrefix) THEN "NO_SUCH_PATH"
    ELSE IF ContainsRune(openFileName(p), "/") THEN "NO_SUCH_PATH"
    ELSE "file"

\* what the filename-mapping hook can return for a name: (name, ok, err)
MapperResults(name) ==
    IF fileNameMapper
    THEN {[name |-> name, ok |-> TRUE, err |-> FALSE],
          [name |-> <<"m">> \o name, ok |-> TRUE, err |-> FALSE],
          [name |-> <<>>, ok |-> FALSE, err |-> FALSE],
          [name |-> <<>>, ok |-> FALSE, err |-> TRUE],
          [name |-> name, ok |-> TRUE, err |-> TRUE]}
    ELSE {[name |-> name, ok |-> TRUE, err |-> FALSE]}

\* the status code the hook's answer leads to, "" when the name is accepted
mapperCode(m) ==
    IF m.err THEN "FAILURE" ELSE IF ~m.ok THEN "INVALID_FILENAME" ELSE ""

\* what os.Create(name) can return
CreateErrors(name) ==
    IF name = <<>> THEN {PathError("ENOENT")} ELSE {NoError, PathError("EACCES")}

\* what os.Open("/dev/null") can return
OpenDevNullErrors == {NoError, PathError("EMFILE")}

\* the response is ready, and m is what the mapping step left
respondMapped(w, resp, m) ==
    wk' = [wk EXCEPT ![w].resp = resp, ![w].pc = "send", ![w].mapped = m]

\* a respond that takes the handle before it looks at the error
openFinishHandleFirst(w, p, m, dirName, err) ==
    /\ nextHandle(m.name, dirName)
    /\ IF err = NoError
       THEN respondMapped(w, sshFxpHandlePacket(p.ID, nextHandleString), m)
       ELSE respondMapped(w, statusFromError(p, err), m)

\* the tail of respond: err is the result of the open or create
openFinish(w, p, m, dirName, err) ==
    IF err = NoError
    THEN /\ nextHandle(m.name, dirName)
         /\ respondMapped(w, sshFxpHandlePacket(p.ID, nextHandleString), m)
    ELSE /\ respondMapped(w, statusFromError(p, err), m)
         /\ UNCHANGED table

HandleOpen(w) ==
    /\ handling(w, {"OPEN", "OPENDIR"})
    /\ LET p == openRequest(wk[w].pkt)
           plan == openPlan(p)
       IN  CASE plan = "dir" ->
                  \E err \in OpenDevNullErrors :
                     openFinish(w, p, [NoMapping EXCEPT !.name = DevNull],
                                Clean(p.Path), err)
             [] plan = "file" ->
                  \E m \in MapperResults(openFileName(p)) :
                     IF mapperCode(m) # ""
                     THEN /\ respondMapped(w, statusFromCode(p, mapperCode(m)), m)
                          /\ UNCHANGED table
                     ELSE \E err \in CreateErrors(m.name) :
                             openFinish(w, p, m, <<>>, err)
             [] OTHER ->
                  /\ respond(w, statusFromCode(p, plan))
                  /\ UNCHANGED table
    /\ UNCHANGED <<config, files, serve, connClosed, sent>>

(***************************************************************************)
(* case *sshFxpWritePacket: getHandle, then the limit check and WriteAt.   *)
(***************************************************************************)
HandleWriteGetHandle(w) ==
    /\ handling(w, {"WRITE"})
    /\ LET p == wk[w].pkt
       IN  IF getHandleOk(p.Handle)
           THEN wk' = [wk EXCEPT ![w].f = openFiles[p.Handle], ![w].pc = "writeat"]
           ELSE respond(w, statusFromError(p, Errno("EBADF")))
    /\ UNCHANGED <<config, table, files, serve, connClosed, sent>>

\* int64(p.Offset)
writeOffset(p) == toSigned(p.Offset)

\* s.fileSizeLimit > 0 && (int64(p.Offset)+int64(len(p.Data))) > s.fileSizeLimit
exceedsLimit(p) ==
    /\ fileSizeLimit > 0
    /\ toSigned(writeOffset(p) + p.DataLen) > fileSizeLimit

\* what f.WriteAt(data, off) can return
WriteAtErrors(f, off) ==
    IF off < 0 THEN {PathErrorText("negative offset")}
    ELSE IF f.fid \in closedFiles THEN {PathErrorText("file already closed")}
    ELSE {NoError, PathError("EIO")}

HandleWriteAt(w) ==
    /\ at(w, "writeat")
    /\ LET p == wk[w].pkt
           f == wk[w].f
       IN  IF exceedsLimit(p)
           THEN /\ respond(w, statusFromError(p, Errno("EFBIG")))
                /\ UNCHANGED fileIO
           ELSE /\ fileIO' = Append(fileIO, IOCall("WriteAt", f, writeOffset(p), p.DataLen))
                /\ \E err \in WriteAtErrors(f, writeOffset(p)) :
                      respond(w, statusFromError(p, err))
    /\ UNCHANGED <<config, table, closedFiles, notified, serve, connClosed, sent>>

(***************************************************************************)
(* sshFxpReaddirPacket.respond: getHandle; with the hook, getHandleDirInfo *)
(* and the one-shot listing of an ancestor; without it, f.Readdir.         *)
(***************************************************************************)
HandleReaddirGetHandle(w) ==
    /\ handling(w, {"READDIR"})
    /\ LET p == wk[w].pkt
       IN  IF ~getHandleOk(p.Handle)
           THEN respond(w, statusFromError(p, Errno("EBADF")))
           ELSE wk' = [wk EXCEPT ![w].f = openFiles[p.Handle],
                                 ![w].pc = IF readdirHook THEN "dirinfo" ELSE "readdir"]
    /\ UNCHANGED <<config, table, files, serve, connClosed, sent>>

\* what f.Readdir(128) can return: no file behind a handle is a directory
ReaddirErrors(f) ==
    IF f.fid \in closedFiles THEN {PathErrorText("file already closed")}
    ELSE {PathError("ENOTDIR")}

\* dirname = f.Name(); dirents, err = f.Readdir(128)
HandleReaddirFile(w) ==
    /\ at(w, "readdir")
    /\ fileIO' = Append(fileIO, IOCall("Readdir", wk[w].f, 0, 128))
    /\ \E err \in ReaddirErrors(wk[w].f) : respond(w, statusFromError(wk[w].pkt, err))
    /\ UNCHANGED <<config, table, closedFiles, notified, serve, connClosed, sent>>

\* dirInfo, ok := svr.getHandleDirInfo(p.Handle)
HandleReaddirGetDirInfo(w) ==
    /\ at(w, "dirinfo")
    /\ LET p == wk[w].pkt
       IN  IF ~getHandleDirInfoOk(p.Handle)
           THEN respond(w, statusFromError(p, Errno("EBADF")))
           ELSE wk' = [wk EXCEPT ![w].di = openDirs[p.Handle], ![w].pc = "list"]
    /\ UNCHANGED <<config, table, files, serve, connClosed, sent>>

\* what the directory-listing hook can return: (names of the entries, err)
ReaddirHookResults ==
    {[names |-> <<>>, err |-> NoError],
     [names |-> << <<"f">> >>, err |-> NoError],
     [names |-> <<>>, err |-> EOF],
     [names |-> <<>>, err |-> OtherError("hook failed")]}

\* the name of the one entry of an ancestor: the next segment of the upload path
childDirName(dirPath) ==
    LET prefixLen == IF dirPath = <<"/">> THEN 1 ELSE Len(dirPath) + 1
        rest == SliceFrom(uploadPath, prefixLen)
        i == Index(rest, "/")
    IN  IF i # -1 THEN SliceTo(rest, i) ELSE rest

\* the branch on dirInfo.name, up to the test of dirInfo.read
HandleReaddirList(w) ==
    /\ at(w, "list")
    /\ LET p == wk[w].pkt
           dirInfo == dirInfos[wk[w].di]
       IN  IF dirInfo.name = uploadPath
           THEN \E r \in ReaddirHookResults :
                   respond(w, IF r.err # NoError
                              THEN statusFromError(p, r.err)
                              ELSE sshFxpNamePacket(p.ID, r.names))
           ELSE IF isUploadDirOrAncestor(dirInfo.name)
           THEN IF dirInfo.read
                THEN respond(w, statusFromError(p, EOF))
                ELSE wk' = [wk EXCEPT ![w].pc = "mark"]
           ELSE respond(w, statusFromError(p, Errno("EBADF")))
    /\ UNCHANGED <<config, table, files, serve, connClosed, sent>>

\* a listing that does not remember that the child was emitted
HandleReaddirMarkForgets(w) ==
    /\ at(w, "mark")
    /\ respond(w, sshFxpNamePacket(wk[w].pkt.ID,
                                   <<childDirName(dirInfos[wk[w].di].name)>>))
    /\ UNCHANGED <<config, table, files, serve, connClosed, sent>>

\* dirents = the one child; dirInfo.read = true
HandleReaddirMark(w) ==
    /\ at(w, "mark")
    /\ dirInfos' = [dirInfos EXCEPT ![wk[w].di].read = TRUE]
    /\ respond(w, sshFxpNamePacket(wk[w].pkt.ID,
                                   <<childDirName(dirInfos[wk[w].di].name)>>))
    /\ UNCHANGED <<config, openFiles, openDirs, handleCount, files, serve,
                   connClosed, sent>>

(***************************************************************************)
(* Workloads: the option values and the packets a client sends.            *)
(***************************************************************************)
Options(ro, up, limit, mapper, notifier, hook) ==
    [readOnly |-> ro, uploadPath |-> up, fileSizeLimit |-> limit,
     fileNameMapper |-> mapper, uploadNotifier |-> notifier, readdirHook |-> hook]

PathPacket(type, path) == [Packet(type) EXCEPT !.Path = path]
OpenPacket(path, pflags) == [Packet("OPEN") EXCEPT !.Path = path, !.Pflags = pflags]
HandlePacket(type, handle) == [Packet(type) EXCEPT !.Handle = handle]
WritePacket(handle, offset, len) ==
    [Packet("WRITE") EXCEPT !.Handle = handle, !.Offset = offset, !.DataLen = len]

\* every packet type once, a type the switch does not know, a body that does
\* not decode, on a server with the upload path /u
AllOptions ==
    {Options(ro, <<"/", "u">>, 0, FALSE, TRUE, hook) : ro \in BOOLEAN, hook \in BOOLEAN}

AllPackets ==
    {Packet(t) : t \in {"INIT", "SETSTAT", "FSETSTAT", "REMOVE", "MKDIR", "RMDIR",
                        "RENAME", "READLINK", "SYMLINK", "EXTENDED", "STATUS"}}
    \cup {HandlePacket(t, <<"1">>) : t \in {"CLOSE", "READ", "FSTAT", "READDIR"}}
    \cup {PathPacket("STAT", <<"/">>), PathPacket("LSTAT", <<"/", "x">>),
          PathPacket("REALPATH", <<>>), PathPacket("OPENDIR", <<"/">>),
          OpenPacket(<<"/", "u", "/", "f">>, {ssh_FXF_WRITE, ssh_FXF_CREAT}),
          OpenPacket(<<"/">>, {ssh_FXF_READ}),
          WritePacket(<<"1">>, 0, 1),
          [Packet("CLOSE") EXCEPT !.wellFormed = FALSE]}

\* opens and closes, for one worker or several
HandleOptions ==
    {Options(FALSE, <<"/", "u">>, 0, FALSE, notifier, FALSE) : notifier \in BOOLEAN}

HandlePackets ==
    {OpenPacket(<<"/", "u", "/", "f">>, {ssh_FXF_WRITE, ssh_FXF_CREAT}),
     OpenPacket(<<"/">>, {ssh_FXF_READ}),
     HandlePacket("CLOSE", <<"1">>), HandlePacket("CLOSE", <<"2">>)}

\* opens of many paths under many flag words
OpenOptions ==
    {Options(ro, up, 0, mapper, FALSE, FALSE) :
        ro \in BOOLEAN, mapper \in BOOLEAN,
        up \in {<<>>, <<"/", "u">>, <<"/", "u", "/", "p", "/">>}}

OpenPaths ==
    {<<"/">>, <<"/", "u">>, <<"/", "f">>, <<"/", "u", "/">>, <<"/", "u", "/", "f">>,
     <<"/", "u", "/", "p">>, <<"/", "u", "/", "p", "/", "f">>,
     <<"/", "u", "/", "/", "f">>, <<"/", "u", "/", "f", "/", "g">>,
     <<"u", "/", "f">>, <<"/", "x", "/", ".", ".", "/", "u", "/", "f">>}

OpenFlagWords ==
    {{}, {ssh_FXF_READ}, {ssh_FXF_WRITE}, {ssh_FXF_READ, ssh_FXF_WRITE},
     {ssh_FXF_WRITE, ssh_FXF_CREAT}, {ssh_FXF_APPEND},
     {ssh_FXF_READ, ssh_FXF_APPEND}, {ssh_FXF_WRITE, ssh_FXF_APPEND}}

OpenPackets ==
    {OpenPacket(path, pflags) : path \in OpenPaths, pflags \in OpenFlagWords}
       \cup {PathPacket("OPENDIR", path) : path \in OpenPaths}

\* an upload under a size limit: offsets around the sign bit of the word
WriteOptions ==
    {Options(FALSE, <<"/", "u">>, limit, FALSE, FALSE, FALSE) : limit \in {-1, 0, 3}}

WriteOffsets == {0, 2, 4, MaxSigned, MaxSigned + 1, WordModulus - 1}

WritePackets ==
    {OpenPacket(<<"/", "u", "/", "f">>, {ssh_FXF_WRITE, ssh_FXF_CREAT}),
     WritePacket(<<"2">>, 0, 1)}
    \cup {WritePacket(<<"1">>, off, len) : off \in WriteOffsets, len \in {0, 2}}

\* listings of the upload directory and its ancestors through the hook
DirOptions ==
    {Options(ro, up, 0, FALSE, FALSE, TRUE) :
        ro \in BOOLEAN, up \in {<<"/", "u">>, <<"/", "u", "/", "p">>}}

DirPackets ==
    {OpenPacket(<<"/">>, {ssh_FXF_READ}), PathPacket("OPENDIR", <<"/", "u", "/">>),
     HandlePacket("READDIR", <<"1">>), HandlePacket("READDIR", <<"2">>),
     HandlePacket("CLOSE", <<"1">>)}

(***************************************************************************)
(* Specifications.                                                         *)
(***************************************************************************)
\* Serve between the receive loop's end and its return
Shutdown == ServeRecvFail \/ ServeCloseChan \/ ServeWait \/ ServeCleanup

\* the steps every worker takes around a handler
WorkerLoop(w) == WorkerDispatch(w) \/ WorkerExit(w) \/ WorkerSend(w)

HandleReaddir(w) ==
    \/ HandleReaddirGetHandle(w)
    \/ HandleReaddirGetDirInfo(w)
    \/ HandleReaddirList(w)
    \/ HandleReaddirMark(w)

Init == NewServer(AllOptions, sftpServerWorkerCount)

Next ==
    \/ ServeRecvPacket(AllPackets, MaxPackets)
    \/ ServePush
    \/ Shutdown
    \/ \E w \in 1..sftpServerWorkerCount :
          \/ WorkerLoop(w)
          \/ HandleInit(w)
          \/ HandleStat(w)
          \/ HandleClose(w)
          \/ HandleRealpath(w)
          \/ HandleSetstat(w)
          \/ HandleOpen(w)
          \/ HandleWriteGetHandle(w)
          \/ HandleWriteAt(w)
          \/ HandleReaddir(w)
          \/ HandleReaddirFile(w)

\* the server as built: one worker, every packet type
Spec == Init /\ [][Next]_vars

InitHandles == \E n \in 1..MaxWorkers : NewServer(HandleOptions, n)

NextHandles ==
    \/ ServeRecvPacket(HandlePackets, MaxHandlePackets)
    \/ ServePush
    \/ Shutdown
    \/ \E w \in 1..MaxWorkers : WorkerLoop(w) \/ HandleOpen(w) \/ HandleClose(w)

\* opens and closes on a pool of up to MaxWorkers workers
SpecHandles == InitHandles /\ [][NextHandles]_vars

InitOpen == NewServer(OpenOptions, sftpServerWorkerCount)

NextOpen ==
    \/ ServeRecvPacket(OpenPackets, MaxOpenPackets)
    \/ ServePush
    \/ Shutdown
    \/ \E w \in 1..sftpServerWorkerCount : WorkerLoop(w) \/ HandleOpen(w)

\* open requests of every shape
SpecOpen == InitOpen /\ [][NextOpen]_vars

InitWrite == NewServer(WriteOptions, sftpServerWorkerCount)

NextWrite ==
    \/ ServeRecvPacket(WritePackets, MaxWritePackets)
    \/ ServePush
    \/ Shutdown
    \/ \E w \in 1..sftpServerWorkerCount :
          \/ WorkerLoop(w)
          \/ HandleOpen(w)
          \/ HandleWriteGetHandle(w)
          \/ HandleWriteAt(w)

\* writes at every kind of offset
SpecWrite == InitWrite /\ [][NextWrite]_vars

InitDir == NewServer(DirOptions, sftpServerWorkerCount)

NextDir ==
    \/ ServeRecvPacket(DirPackets, MaxDirPackets)
    \/ ServePush
    \/ Shutdown
    \/ \E w \in 1..sftpServerWorkerCount :
          WorkerLoop(w) \/ HandleOpen(w) \/ HandleClose(w) \/ HandleReaddir(w)

\* directory listings through the hook
SpecDir == InitDir /\ [][NextDir]_vars

\* stat and lstat of paths on, beside and below the ancestor chain
StatOptions ==
    {Options(ro, up, 0, FALSE, FALSE, FALSE) :
        ro \in BOOLEAN,
        up \in {<<>>, <<"/", "u">>, <<"/", "u", "p">>, <<"/", "u", "/", "p", "/">>}}

StatPaths ==
    {<<>>, <<".">>, <<"/">>, <<"/", "/">>, <<"u">>, <<"/", "u">>, <<"/", "u", "/">>,
     <<"/", "u", "p">>, <<"/", "u", "/", "p">>, <<"/", "u", "/", ".", "/", "p">>,
     <<"/", "u", "/", "p", "/", "f">>, <<"/", "u", "/", "p", "/", ".", ".">>,
     <<"/", "u", "/", "q">>, <<"/", "p">>, <<"/", ".", ".", "/", "u">>}

StatPackets == {PathPacket(t, path) : t \in {"STAT", "LSTAT"}, path \in StatPaths}

InitStat == NewServer(StatOptions, sftpServerWorkerCount)

NextStat ==
    \/ ServeRecvPacket(StatPackets, MaxStatPackets)
    \/ ServePush
    \/ Shutdown
    \/ \E w \in 1..sftpServerWorkerCount : WorkerLoop(w) \/ HandleStat(w)

\* stat and lstat requests of every shape
SpecStat == InitStat /\ [][NextStat]_vars

\* the errors a handler can hand to sendError
TranslateErrnos == {"ENOENT", "EPERM", "EACCES", "EBADF", "EFBIG", "ENOTDIR", "EMFILE", "EIO"}

TranslateErrors ==
    {NoError, EOF, PathErrorText("negative offset"),
     PathErrorText("file already closed"), OtherError("hook failed"),
     OtherError("stat /u/f: no such file or directory")}
    \cup {Errno(e) : e \in TranslateErrnos}
    \cup {PathError(e) : e \in TranslateErrnos}

\* the worker has taken request id and its handler is about to call
\* sendError with one of the errors
InitTranslate ==
    /\ readOnly = FALSE
    /\ uploadPath = <<"/", "u">>
    /\ fileSizeLimit = 0
    /\ fileNameMapper = FALSE
    /\ uploadNotifier = FALSE
    /\ readdirHook = FALSE
    /\ nWorkers = sftpServerWorkerCount
    /\ openFiles = EmptyMap
    /\ openDirs = EmptyMap
    /\ handleCount = 0
    /\ dirInfos = EmptyMap
    /\ closedFiles = {}
    /\ fileIO = <<>>
    /\ notified = <<>>
    /\ servePc = "recv"
    /\ pending = NoPacket
    /\ pktChan = <<>>
    /\ chanClosed = FALSE
    /\ connClosed = FALSE
    /\ sent = <<>>
    /\ \E id \in 1..MaxErrorID, e \in TranslateErrors :
          /\ wk = [w \in 1..sftpServerWorkerCount |->
                     [IdleWorker EXCEPT !.pc = "senderror",
                                        !.pkt = [Packet("CLOSE") EXCEPT !.ID = id],
                                        !.err = e]]
          /\ nrecv = id

NextTranslate == \E w \in 1..sftpServerWorkerCount : SendError(w) \/ WorkerSend(w)

\* sendError applied to every kind of error
SpecTranslate == InitTranslate /\ [][NextTranslate]_vars

\* requests that are answered at once, refused or fatal, for the pool
PoolOptions == {Options(FALSE, <<"/", "u">>, 0, FALSE, FALSE, FALSE)}

PoolPackets ==
    {Packet("INIT"), OpenPacket(<<"/">>, {ssh_FXF_READ}), HandlePacket("READ", <<"1">>),
     Packet("STATUS")}

InitPool == \E n \in 1..MaxWorkers : NewServer(PoolOptions, n)

NextPool ==
    \/ ServeRecvPacket(PoolPackets, MaxPoolPackets)
    \/ ServePush
    \/ Shutdown
    \/ \E w \in 1..MaxWorkers : WorkerLoop(w) \/ HandleInit(w) \/ HandleOpen(w)

\* the receive loop, the queue and a pool of up to MaxWorkers workers
SpecPool == InitPool /\ [][NextPool]_vars

\* requests on one handle that several workers handle at the same time
RaceOptions ==
    {Options(FALSE, <<"/", "u">>, 0, FALSE, FALSE, hook) : hook \in BOOLEAN}

RacePackets ==
    {OpenPacket(<<"/">>, {ssh_FXF_READ}),
     OpenPacket(<<"/", "u", "/", "f">>, {ssh_FXF_WRITE, ssh_FXF_CREAT}),
     HandlePacket("READDIR", <<"1">>), WritePacket(<<"1">>, 0, 1),
     HandlePacket("CLOSE", <<"1">>)}

InitRace == \E n \in 2..MaxWorkers : NewServer(RaceOptions, n)

NextRace ==
    \/ ServeRecvPacket(RacePackets, MaxRacePackets)
    \/ ServePush
    \/ Shutdown
    \/ \E w \in 1..MaxWorkers :
          \/ WorkerLoop(w)
          \/ HandleOpen(w)
          \/ HandleClose(w)
          \/ HandleWriteGetHandle(w)
          \/ HandleWriteAt(w)
          \/ HandleReaddir(w)
          \/ HandleReaddirFile(w)

\* a pool of more than one worker: each worker goroutine runs its handler
\* statement by statement between the steps of the others
SpecRace == InitRace /\ [][NextRace]_vars

\* the steps of the Serve goroutine that wait for nothing outside the program
ServeProgress == ServePush \/ ServeCloseChan \/ ServeWait \/ ServeCleanup

\* a short session that ends in a shutdown: a request answered at once, a
\* handle that stays open, a request that is fatal to its worker
ShutdownPackets ==
    {Packet("INIT"), OpenPacket(<<"/">>, {ssh_FXF_READ}), Packet("STATUS")}

InitShutdown == \E n \in 1..MaxWorkers : NewServer(PoolOptions, n)

\* the steps of worker w in the shutdown workload
ShutdownWorker(w) == WorkerLoop(w) \/ HandleInit(w) \/ HandleOpen(w)

NextShutdown ==
    \/ ServeRecvPacket(ShutdownPackets, MaxShutdownPackets)
    \/ ServePush
    \/ Shutdown
    \/ \E w \in 1..MaxWorkers : ShutdownWorker(w)

\* a step of the program, as opposed to a step of the client or the transport
ShutdownProgress == ServeProgress \/ \E w \in 1..MaxWorkers : ShutdownWorker(w)

\* the pool under a scheduler that does not stop the program while one of its
\* goroutines can run, and a transport whose writes return
FairSpecShutdown == InitShutdown /\ [][NextShutdown]_vars /\ WF_vars(ShutdownProgress)

(***************************************************************************)
(* Claims.                                                                 *)
(***************************************************************************)
\* the status a request on an unknown handle is answered with (EBADF)
BadHandleStatus(p) == sshFxpStatusPacket(p.ID, "FAILURE", "bad file descriptor")

\* worker w holds the response resp-wise ready for a request of one of types
answering(w, types) == at(w, "send") /\ wk[w].pkt.type \in types

\* this step is worker w running the handler of a request of one of types
handlerStep(w, types) == handling(w, types) /\ wk'[w].pc = "send"

C1_CloseEffect(w) ==
    LET p == wk[w].pkt
        h == p.Handle
    IN  IF h \in DOMAIN openFiles
        THEN /\ h \notin DOMAIN openFiles'
             /\ h \notin DOMAIN openDirs'
             /\ \A g \in DOMAIN openFiles \ {h} :
                   g \in DOMAIN openFiles' /\ openFiles'[g] = openFiles[g]
             /\ notified' = IF uploadNotifier /\ h \notin DOMAIN openDirs
                            THEN Append(notified, openFiles[h].name)
                            ELSE notified
             /\ wk'[w].resp # BadHandleStatus(p)
        ELSE /\ wk'[w].resp = BadHandleStatus(p)
             /\ notified' = notified
             /\ UNCHANGED table

C1_OneCloseSucceeds ==
    \A w1 \in Workers : \A w2 \in Workers \ {w1} :
       /\ answering(w1, {"CLOSE"})
       /\ answering(w2, {"CLOSE"})
       /\ wk[w1].pkt.Handle = wk[w2].pkt.Handle
       => \/ wk[w1].resp = BadHandleStatus(wk[w1].pkt)
          \/ wk[w2].resp = BadHandleStatus(wk[w2].pkt)

\* C1: a close of a handle of the table removes it (and no other handle) and
\* calls the upload notifier, when there is one, exactly once with the file's
\* name for an upload file and not at all for a directory handle; a close of a
\* handle that is not in the table is answered with the bad-handle failure,
\* calls no notifier and leaves the table as it is; the notifier is called by
\* no other step; of two workers that answer a close of the same handle at the
\* same time, at most one answers anything but bad handle.
C1_ClosePolicy ==
    /\ []C1_OneCloseSucceeds
    /\ [][/\ \A w \in Workers : handlerStep(w, {"CLOSE"}) => C1_CloseEffect(w)
          /\ notified' # notified => \E w \in Workers : handlerStep(w, {"CLOSE"})]_vars

\* two workers hold the answers to a close of the same upload file: one OK, one
\* bad handle, and the notifier was called once, with the file's name
C1_Witness ==
    /\ notified = << <<"f">> >>
    /\ \E w1 \in Workers : \E w2 \in Workers \ {w1} :
          /\ answering(w1, {"CLOSE"})
          /\ answering(w2, {"CLOSE"})
          /\ wk[w1].pkt.Handle = wk[w2].pkt.Handle
          /\ wk[w1].resp.Code = "OK"
          /\ wk[w2].resp = BadHandleStatus(wk[w2].pkt)

DigitValue(c) == CHOOSE d \in 0..9 : Digit(d) = c

IsDecimal(s) ==
    /\ s # <<>>
    /\ \A i \in 1..Len(s) : \E d \in 0..9 : Digit(d) = s[i]
    /\ Len(s) > 1 => s[1] # "0"

RECURSIVE DecimalValue(_)
\* the number a decimal string denotes
DecimalValue(s) ==
    IF Len(s) = 1 THEN DigitValue(s[1])
    ELSE 10 * DecimalValue(SubSeq(s, 1, Len(s) - 1)) + DigitValue(s[Len(s)])

C2_TableInv ==
    /\ DOMAIN openDirs \subseteq DOMAIN openFiles
    /\ \A h \in DOMAIN openFiles :
          /\ IsDecimal(h)
          /\ DecimalValue(h) \in 1..handleCount
          /\ openFiles[h].fid = DecimalValue(h)
          /\ servePc # "done" => openFiles[h].fid \notin closedFiles

C2_Allocation(w) ==
    LET h == wk'[w].resp.Handle
    IN  /\ handleCount' = handleCount + 1
        /\ IsDecimal(h)
        /\ DecimalValue(h) = handleCount'
        /\ h \notin DOMAIN openFiles
        /\ DOMAIN openFiles' = DOMAIN openFiles \cup {h}
        /\ \A g \in DOMAIN openFiles : openFiles'[g] = openFiles[g]

\* C2: every handle of the table is the decimal string of a number of 1 ..
\* handleCount and maps to the one file opened for that number, which is open
\* until Serve's clean-up; every open that answers with a handle answers with
\* the decimal string of the counter's next value, a string that is not in the
\* table, and adds only it; the counter changes in no other way: so the
\* handles issued are "1", "2", "3", ... and none is issued twice.
C2_HandlesNeverReused ==
    /\ []C2_TableInv
    /\ [][/\ \A w \in Workers :
                handlerStep(w, {"OPEN", "OPENDIR"}) /\ wk'[w].resp.kind = "HANDLE"
                => C2_Allocation(w)
          /\ handleCount' # handleCount
             => \E w \in Workers :
                   handlerStep(w, {"OPEN", "OPENDIR"}) /\ wk'[w].resp.kind = "HANDLE"]_vars

\* handle "1" was closed and the next open got "2", not "1" again
C2_Witness ==
    /\ handleCount = 2
    /\ DOMAIN openFiles = {<<"2">>}
    /\ \E w \in Workers :
          answering(w, {"OPEN"}) /\ wk[w].resp = sshFxpHandlePacket(wk[w].pkt.ID, <<"2">>)

\* this step is worker w taking the next packet of the queue
dispatchStep(w) == at(w, "idle") /\ pktChan # <<>> /\ wk'[w] # wk[w]

\* this step is worker w writing its response to the transport
sendStep(w) == at(w, "send") /\ sent' = Append(sent, wk[w].resp)

\* after its response is written the worker waits for the next packet, the
\* connection is open and the handle table is as it was
C_WorkerGoesOn(w) == wk'[w].pc = "idle" /\ ~connClosed' /\ UNCHANGED table

C5_Unsupported(p) == sshFxpStatusPacket(p.ID, "OP_UNSUPPORTED", "")

C3_OpenForWrite(p) == p.type = "OPEN" /\ p.wellFormed /\ ssh_FXF_WRITE \in p.Pflags

C3_Denied(p) == sshFxpStatusPacket(p.ID, "PERMISSION_DENIED", "operation not permitted")

\* C3: on a read-only server a worker that takes an open with the write flag
\* prepares PERMISSION_DENIED for it without touching the handle table or the
\* counter, never runs the open handler for it, and once the status is
\* written waits for the next packet with the connection open.
C3_ReadOnlyOpenDenied ==
    /\ [](readOnly => \A w \in Workers :
            wk[w].pc \notin {"idle", "exited"} /\ C3_OpenForWrite(wk[w].pkt)
            => wk[w].pc = "send" /\ wk[w].resp = C3_Denied(wk[w].pkt))
    /\ [][readOnly => \A w \in Workers :
            /\ dispatchStep(w) /\ C3_OpenForWrite(Head(pktChan))
               => /\ wk'[w].pc = "send"
                  /\ wk'[w].resp = C3_Denied(Head(pktChan))
                  /\ UNCHANGED <<table, connClosed>>
            /\ sendStep(w) /\ C3_OpenForWrite(wk[w].pkt) => C_WorkerGoesOn(w)]_vars

\* the denial of an open for write was written, no handle was allocated, and
\* the worker has gone on to the next packet
C3_Witness ==
    /\ readOnly
    /\ handleCount = 0
    /\ openFiles = EmptyMap
    /\ Len(sent) = 1
    /\ \E w \in Workers : wk[w].pc \in {"handle", "send"} /\ wk[w].pkt.ID = 2
    /\ \E p \in AllPackets : C3_OpenForWrite(p) /\ sent[1] = C3_Denied([p EXCEPT !.ID = 1])

C4_MutatingTypes ==
    {"WRITE", "SETSTAT", "FSETSTAT", "REMOVE", "MKDIR", "RMDIR", "RENAME", "SYMLINK"}

C4_Mutating(p) ==
    /\ p.wellFormed
    /\ \/ p.type \in C4_MutatingTypes
       \/ p.type = "OPEN" /\ ssh_FXF_WRITE \in p.Pflags

\* the mutating requests the read-only gate sees: the others are refused as
\* unsupported before it
C4_Gated(p) == p.type \in {"WRITE", "SETSTAT", "OPEN"}

\* C4 as claimed: on a read-only server every mutating request is answered
\* with PERMISSION_DENIED.
C4_Original ==
    [][readOnly => \A w \in Workers :
          dispatchStep(w) /\ C4_Mutating(Head(pktChan))
          => wk'[w].pc = "send" /\ wk'[w].resp.Code = "PERMISSION_DENIED"]_vars

\* C4 (amended): on a read-only server a mutating request is never handed to
\* its handler; write, setstat and open with the write flag are answered with
\* PERMISSION_DENIED, and fsetstat, remove, mkdir, rmdir, rename and symlink
\* with OP_UNSUPPORTED; the handle table is untouched, and once the status is
\* written the worker waits for the next packet.
C4_ReadOnlyGate ==
    /\ [](readOnly => \A w \in Workers :
            C4_Mutating(wk[w].pkt) => wk[w].pc \in {"send", "exited"})
    /\ [][readOnly => \A w \in Workers :
            /\ dispatchStep(w) /\ C4_Mutating(Head(pktChan))
               => /\ wk'[w].pc = "send"
                  /\ wk'[w].resp.kind = "STATUS"
                  /\ wk'[w].resp.ID = Head(pktChan).ID
                  /\ wk'[w].resp.Code = IF C4_Gated(Head(pktChan))
                                        THEN "PERMISSION_DENIED"
                                        ELSE "OP_UNSUPPORTED"
                  /\ UNCHANGED <<table, connClosed>>
            /\ sendStep(w) /\ C4_Mutating(wk[w].pkt) => C_WorkerGoesOn(w)]_vars

\* a write was denied and the worker went on to a remove, which it refuses as
\* unsupported
C4_Witness ==
    /\ readOnly
    /\ sent = <<C3_Denied([Packet("WRITE") EXCEPT !.ID = 1])>>
    /\ \E w \in Workers :
          /\ answering(w, {"REMOVE"})
          /\ wk[w].resp = C5_Unsupported(wk[w].pkt)

C5_Types ==
    {"INIT", "OPEN", "CLOSE", "READ", "WRITE", "STAT", "LSTAT", "FSTAT", "SETSTAT",
     "FSETSTAT", "MKDIR", "RMDIR", "REMOVE", "RENAME", "SYMLINK", "READLINK",
     "REALPATH", "OPENDIR", "READDIR", "EXTENDED"}

C5_Routed ==
    {"INIT", "OPEN", "CLOSE", "WRITE", "STAT", "LSTAT", "SETSTAT", "REALPATH",
     "OPENDIR", "READDIR"}

\* C5 as claimed: on a server that is not read-only, a well-formed packet of
\* each of the twenty types is handed to its handler.
C5_Original ==
    [][~readOnly => \A w \in Workers :
          dispatchStep(w) /\ Head(pktChan).wellFormed /\ Head(pktChan).type \in C5_Types
          => wk'[w].pc = "handle"]_vars

\* C5 (amended): on a server that is not read-only, a well-formed packet of the
\* types init, open, close, write, stat, lstat, setstat, realpath, opendir and
\* readdir is handed to its handler; one of the types read, fstat, fsetstat,
\* mkdir, rmdir, remove, rename, symlink, readlink and extended is answered
\* with OP_UNSUPPORTED by the dispatcher and reaches no handler.
C5_Routing ==
    [][~readOnly => \A w \in Workers :
          dispatchStep(w) /\ Head(pktChan).wellFormed /\ Head(pktChan).type \in C5_Types
          => IF Head(pktChan).type \in C5_Routed
             THEN wk'[w].pc = "handle" /\ wk'[w].pkt = Head(pktChan)
             ELSE wk'[w].pc = "send" /\ wk'[w].resp = C5_Unsupported(Head(pktChan))]_vars

\* a read was refused as unsupported and a realpath is with its handler
C5_Witness ==
    /\ ~readOnly
    /\ sent = <<C5_Unsupported([Packet("READ") EXCEPT !.ID = 1])>>
    /\ \E w \in Workers : handling(w, {"REALPATH"})

\* C6 as claimed: a packet whose type is outside the supported set is answered
\* with OP_UNSUPPORTED and does not end the worker.
C6_Original ==
    [][\A w \in Workers :
          dispatchStep(w) /\ Head(pktChan).wellFormed /\ Head(pktChan).type \notin C5_Routed
          => wk'[w].pc = "send" /\ wk'[w].resp = C5_Unsupported(Head(pktChan))]_vars

\* C6 (amended): a well-formed packet of a type that the dispatcher decodes but
\* does not allow is answered with OP_UNSUPPORTED, the handle table untouched,
\* and once that status is written the worker waits for the next packet with
\* the connection open; a packet of a type the dispatcher does not decode ends
\* the worker with an error, and the connection is closed.
C6_UnsupportedNotFatal ==
    [][\A w \in Workers :
          /\ dispatchStep(w) /\ Head(pktChan).wellFormed
                /\ Head(pktChan).type \in C5_Types \ C5_Routed
             => /\ wk'[w].pc = "send"
                /\ wk'[w].resp = C5_Unsupported(Head(pktChan))
                /\ UNCHANGED <<table, connClosed>>
          /\ sendStep(w) /\ wk[w].pkt.type \in C5_Types \ C5_Routed => C_WorkerGoesOn(w)
          /\ dispatchStep(w) /\ Head(pktChan).type \notin C5_Types
             => wk'[w].pc = "exited" /\ wk'[w].failed /\ connClosed']_vars

\* an unsupported request was answered and the next request was answered too
C6_Witness ==
    /\ Len(sent) = 2
    /\ sent[1] = C5_Unsupported([Packet("MKDIR") EXCEPT !.ID = 1])
    /\ sent[2].kind = "VERSION"
    /\ ~connClosed

\* the path is the upload directory prefix followed by one name without a slash
C7_ImmediateChild(path) ==
    /\ Len(path) >= Len(uploadPrefix)
    /\ \A i \in 1..Len(uploadPrefix) : path[i] = uploadPrefix[i]
    /\ \A i \in (Len(uploadPrefix) + 1)..Len(path) : path[i] # "/"

C7_Name(path) == [i \in 1..(Len(path) - Len(uploadPrefix)) |-> path[i + Len(uploadPrefix)]]

\* the answers of an open whose file could not be created
C7_CreateFailed(p, name) ==
    {statusFromError(p, err) : err \in CreateErrors(name) \ {NoError}}

\* the handler answered with a new handle for a file called name
C7_NewHandle(p, r, name) ==
    /\ r.kind = "HANDLE"
    /\ r.ID = p.ID
    /\ r.Handle \notin DOMAIN openFiles
    /\ openFiles' = MapPut(openFiles, r.Handle, File(handleCount', name))
    /\ UNCHANGED <<openDirs, dirInfos>>

C7_OpenForWrite(p, r, m) ==
    IF ssh_FXF_APPEND \in p.Pflags
    THEN r = statusFromCode(p, "OP_UNSUPPORTED")
    ELSE IF ~C7_ImmediateChild(p.Path)
    THEN r = statusFromCode(p, "NO_SUCH_PATH")
    ELSE /\ m \in MapperResults(C7_Name(p.Path))
         /\ IF m.err THEN r = statusFromCode(p, "FAILURE")
            ELSE IF ~m.ok THEN r = statusFromCode(p, "INVALID_FILENAME")
            ELSE \/ C7_NewHandle(p, r, m.name)
                 \/ r \in C7_CreateFailed(p, m.name)

\* C7: on a server that is not read-only the open handler answers an open
\* with the write flag with a handle exactly when the path is the upload
\* prefix followed by one name without a slash, the filename mapper (when
\* configured) accepted the name and the file was created; otherwise with
\* OP_UNSUPPORTED for append, NO_SUCH_PATH for any other path, FAILURE when
\* the mapper failed and INVALID_FILENAME when it rejected the name.  An open
\* without the write flag of a path that is neither the upload directory nor
\* an ancestor is answered with OP_UNSUPPORTED.  Only a handle answer changes
\* the handle table.
C7_OpenContract ==
    [][~readOnly => \A w \in Workers :
          handlerStep(w, {"OPEN"})
          => LET p == wk[w].pkt
                 r == wk'[w].resp
                 m == wk'[w].mapped
             IN  /\ ssh_FXF_WRITE \in p.Pflags => C7_OpenForWrite(p, r, m)
                 /\ ssh_FXF_WRITE \in p.Pflags
                    => (r.kind = "HANDLE" <=>
                          /\ ssh_FXF_APPEND \notin p.Pflags
                          /\ C7_ImmediateChild(p.Path)
                          /\ m.ok /\ ~m.err
                          /\ r \notin C7_CreateFailed(p, m.name))
                 /\ ssh_FXF_WRITE \notin p.Pflags
                       /\ ~isUploadDirOrAncestor(Clean(p.Path))
                    => r = statusFromCode(p, "OP_UNSUPPORTED")
                 /\ r.kind # "HANDLE" => UNCHANGED table]_vars

\* an open for write of /u/f got a handle for the file the mapper named
C7_Witness ==
    /\ ~readOnly
    /\ fileNameMapper
    /\ uploadPath = <<"/", "u">>
    /\ \E w \in Workers :
          /\ answering(w, {"OPEN"})
          /\ wk[w].pkt.Path = <<"/", "u", "/", "f">>
          /\ wk[w].pkt.Pflags = {ssh_FXF_WRITE, ssh_FXF_CREAT}
          /\ wk[w].resp = sshFxpHandlePacket(wk[w].pkt.ID, <<"1">>)
          /\ openFiles = MapPut(EmptyMap, <<"1">>, File(1, <<"m", "f">>))

\* C8 as claimed: the open handler answers every open that carries the append
\* flag with OP_UNSUPPORTED and leaves the handle table alone.
C8_AppendRejected ==
    [][\A w \in Workers :
          handlerStep(w, {"OPEN"}) /\ ssh_FXF_APPEND \in wk[w].pkt.Pflags
          => /\ wk'[w].resp = statusFromCode(wk[w].pkt, "OP_UNSUPPORTED")
             /\ UNCHANGED table]_vars

\* the names between the slashes of a path
C9_Segments(path) == SelectSeq(SplitSlash(path), LAMBDA e : e # <<>>)

\* dir is above the upload directory and is not the upload directory
C9_StrictAncestor(dir) ==
    /\ dir # <<>>
    /\ dir[1] = "/"
    /\ Len(C9_Segments(dir)) < Len(C9_Segments(uploadPath))
    /\ \A i \in 1..Len(C9_Segments(dir)) : C9_Segments(dir)[i] = C9_Segments(uploadPath)[i]

\* the segment of the upload path that follows dir
C9_NextSegment(dir) == C9_Segments(uploadPath)[Len(C9_Segments(dir)) + 1]

\* the open answered with a new handle whose directory record is unread
C9_NewDirHandle(p, r) ==
    /\ r.kind = "HANDLE"
    /\ r.ID = p.ID
    /\ r.Handle \notin DOMAIN openFiles
    /\ r.Handle \in DOMAIN openFiles'
    /\ r.Handle \in DOMAIN openDirs'
    /\ openDirs'[r.Handle] \notin DOMAIN dirInfos
    /\ dirInfos'[openDirs'[r.Handle]] = [name |-> Clean(p.Path), read |-> FALSE]

\* this step is worker w settling the answer of a readdir on its directory record
C9_ReaddirAnswer(w) ==
    /\ w \in Workers
    /\ wk[w].pc \in {"list", "mark"}
    /\ wk'[w].pc = "send"

\* C9: with the directory-listing hook configured, an open without the write
\* flag, or an opendir, of a strict ancestor of the upload directory answers
\* (when /dev/null can be opened) with a new handle whose directory record is
\* unread; a readdir on such a handle answers with the one entry named by the
\* next segment of the upload path and marks the record read when the record
\* is unread, and answers EOF and leaves the record alone when it is read; a
\* record, once read, stays read, its name never changes, and only that
\* readdir marks it.
C9_AncestorListing ==
    [][readdirHook => \A w \in Workers :
          /\ handlerStep(w, {"OPEN", "OPENDIR"})
                /\ ssh_FXF_WRITE \notin openRequest(wk[w].pkt).Pflags
                /\ C9_StrictAncestor(Clean(wk[w].pkt.Path))
             => \/ C9_NewDirHandle(wk[w].pkt, wk'[w].resp)
                \/ /\ wk'[w].resp \in {statusFromError(wk[w].pkt, err) :
                                         err \in OpenDevNullErrors \ {NoError}}
                   /\ UNCHANGED table
          /\ C9_ReaddirAnswer(w) /\ C9_StrictAncestor(dirInfos[wk[w].di].name)
             => IF dirInfos[wk[w].di].read
                THEN /\ wk'[w].resp = statusFromError(wk[w].pkt, EOF)
                     /\ UNCHANGED dirInfos
                ELSE /\ wk'[w].resp =
                           sshFxpNamePacket(wk[w].pkt.ID,
                                            <<C9_NextSegment(dirInfos[wk[w].di].name)>>)
                     /\ dirInfos' = [dirInfos EXCEPT ![wk[w].di].read = TRUE]
          /\ \A d \in DOMAIN dirInfos :
                /\ d \in DOMAIN dirInfos'
                /\ dirInfos'[d].name = dirInfos[d].name
                /\ dirInfos[d].read => dirInfos'[d].read
                /\ dirInfos'[d].read /\ ~dirInfos[d].read
                   => C9_ReaddirAnswer(w) /\ wk[w].di = d /\ wk[w].pc = "mark"]_vars

\* the root was opened, its first listing named the upload directory, the
\* second answered EOF, and the record is read
C9_Witness ==
    /\ readdirHook
    /\ uploadPath = <<"/", "u">>
    /\ sent = <<sshFxpHandlePacket(1, <<"1">>),
                sshFxpNamePacket(2, << <<"u">> >>),
                statusFromError([Packet("READDIR") EXCEPT !.ID = 3], EOF)>>
    /\ dirInfos[openDirs[<<"1">>]] = [name |-> <<"/">>, read |-> TRUE]

\* C10 as claimed: a write on a valid handle is answered with "file too large",
\* and WriteAt not called, exactly when a positive limit is configured and
\* offset + len(data) exceeds it; otherwise WriteAt is called at the offset
\* of the request.
C10_LimitCheck ==
    [][\A w \in Workers :
          at(w, "writeat") /\ wk'[w].pc = "send"
          => LET p == wk[w].pkt
             IN  IF fileSizeLimit > 0 /\ p.Offset + p.DataLen > fileSizeLimit
                 THEN /\ wk'[w].resp = statusFromError(p, Errno("EFBIG"))
                      /\ UNCHANGED fileIO
                 ELSE fileIO' = Append(fileIO,
                                       IOCall("WriteAt", wk[w].f, p.Offset, p.DataLen))]_vars

\* the packets that workers have taken from the queue so far
C11_Taken == nrecv - Len(pktChan) - (IF pending # NoPacket THEN 1 ELSE 0)

\* the workers that hold a packet they have not answered yet
C11_InHand == {w \in Workers : wk[w].pkt # NoPacket}

\* the workers that stopped with an error, each on the packet it held
C11_Fatal == {w \in Workers : wk[w].failed}

\* resp is the response that belongs to the request p
C11_ResponseTo(p, resp) ==
    IF p.type = "INIT" /\ dispatch(p) = "handle"
    THEN resp = sshFxVersionPacket
    ELSE resp.kind \notin {"none", "VERSION"} /\ resp.ID = p.ID

\* every taken packet is answered, in a worker's hands, or was fatal
C11_Accounting ==
    /\ Len(sent) + Cardinality(C11_InHand) + Cardinality(C11_Fatal) = C11_Taken
    /\ \A i, j \in 1..Len(sent) :
          i < j /\ sent[i].kind # "VERSION" /\ sent[j].kind # "VERSION"
          => sent[i].ID # sent[j].ID

\* C11: on a pool of any size, in every interleaving, each packet a worker
\* has taken is either still in that worker's hands, or was fatal to it, or
\* has exactly one response on the transport; a response is written only by
\* the worker that holds the request, carries the request's ID (the version
\* packet that answers init carries none), and ends the worker's hold on the
\* request, so that no request is answered twice; a worker lets go of a
\* request only by writing its response or by failing.
C11_ExactlyOneResponse ==
    /\ []C11_Accounting
    /\ [][/\ sent' # sent
             => \E w \in Workers :
                   /\ sendStep(w)
                   /\ C11_ResponseTo(wk[w].pkt, wk[w].resp)
                   /\ wk'[w].pkt = NoPacket
                   /\ \A v \in Workers \ {w} : wk'[v] = wk[v]
          /\ \A w \in Workers :
                wk[w].pkt # NoPacket /\ wk'[w].pkt # wk[w].pkt
                => sendStep(w) \/ (wk'[w].failed /\ connClosed' /\ sent' = sent)]_vars

\* two workers answered two requests in the reverse of their order, and the
\* third request was fatal to the worker that took it
C11_Witness ==
    /\ nWorkers = 2
    /\ sent = <<C5_Unsupported([Packet("READ") EXCEPT !.ID = 2]), sshFxVersionPacket>>
    /\ C11_Taken = 3
    /\ Cardinality(C11_Fatal) = 1

\* recvPacket has returned an error and Serve is about to close the queue
C12_ReadFailed == servePc = "close"

C12_AllExited == \A w \in Workers : wk[w].pc = "exited"

\* C12: under a fair scheduler, once a transport read has failed while no
\* worker has failed, Serve returns; when it has returned and no worker has
\* failed, the queue is closed and empty, nothing waits to be pushed, and
\* every worker has exited; the files left in the handle table are closed
\* only by Serve's last step, after every worker has exited; and the
\* transport is never closed by Serve, only by a worker that fails.
C12_OrderlyShutdown ==
    /\ [](C12_ReadFailed /\ C11_Fatal = {} => <>(servePc = "done"))
    /\ [](servePc = "done" /\ C11_Fatal = {}
            => chanClosed /\ pktChan = <<>> /\ pending = NoPacket /\ C12_AllExited)
    /\ [](servePc \in {"cleanup", "done"} => chanClosed /\ C12_AllExited)
    /\ [][/\ closedFiles' # closedFiles
             => /\ servePc = "cleanup" /\ servePc' = "done"
                /\ C12_AllExited
                /\ closedFiles' = closedFiles \cup leftOpenFids
          /\ connClosed' # connClosed
             => \E w \in Workers : wk'[w].failed /\ ~wk[w].failed]_vars

\* Serve returned after a read failure with no worker failed: two requests
\* were answered by two workers and the handle left open was closed at the end
C12_Witness ==
    /\ servePc = "done"
    /\ nWorkers = 2
    /\ C11_Fatal = {}
    /\ Len(sent) = 2
    /\ DOMAIN openFiles = {<<"1">>}
    /\ closedFiles = {1}
    /\ ~connClosed

\* C13 as claimed: the receive loop is never left blocked for good; in
\* particular it never stands at a push to a full queue when every worker
\* has exited.
C13_ReceiveNeverStuck ==
    ~(/\ servePc = "push"
      /\ Len(pktChan) = nWorkers
      /\ C12_AllExited
      /\ connClosed)

\* name is among the names handed to the upload notifier
C14_Notified(name) == \E i \in 1..Len(notified) : notified[i] = name

\* C14 as claimed: when Serve has returned, every file still in the handle
\* table is closed, and with an upload notifier configured every upload file
\* among them was handed to the notifier.
C14_LeftOpenClosedAndNotified ==
    servePc = "done"
    => \A h \in DOMAIN openFiles :
          /\ openFiles[h].fid \in closedFiles
          /\ uploadNotifier /\ h \notin DOMAIN openDirs
             => C14_Notified(openFiles[h].name)

\* c is the upload directory, the root, or c followed by a slash begins the
\* upload directory
C15_Qualifies(c) ==
    \/ c = uploadPath
    \/ c = <<"/">>
    \/ /\ Len(uploadPath) > Len(c)
       /\ \A i \in 1..Len(c) : uploadPath[i] = c[i]
       /\ uploadPath[Len(c) + 1] = "/"

\* c is the upload directory or one of the directories above it
C15_OnAncestorChain(c) ==
    /\ c # <<>>
    /\ c[1] = "/"
    /\ Len(C9_Segments(c)) <= Len(C9_Segments(uploadPath))
    /\ \A i \in 1..Len(C9_Segments(c)) : C9_Segments(c)[i] = C9_Segments(uploadPath)[i]

\* the synthetic directory entry for the cleaned path c
C15_Directory(p, c) ==
    [kind |-> "ATTRS", ID |-> p.ID, name |-> c, mode |-> "ModeDir|0755"]

\* C15: the handler of stat and lstat answers with the synthetic directory
\* entry (directory mode, 0755) exactly when the cleaned path is the upload
\* directory, is "/", or followed by a slash begins the upload directory,
\* and with NO_SUCH_FILE otherwise; the handle table is unchanged either
\* way; and every path on the ancestor chain of the upload directory gets
\* the directory entry.
C15_StatContract ==
    [][\A w \in Workers :
          handlerStep(w, {"STAT", "LSTAT"})
          => LET p == wk[w].pkt
                 c == Clean(p.Path)
                 r == wk'[w].resp
             IN  /\ r = IF C15_Qualifies(c)
                        THEN C15_Directory(p, c)
                        ELSE sshFxpStatusPacket(p.ID, "NO_SUCH_FILE",
                                                "no such file or directory")
                 /\ C15_OnAncestorChain(c) => r = C15_Directory(p, c)
                 /\ UNCHANGED table]_vars

\* a stat of /u/./p on a server that uploads to /u/p/ got the entry of /u/p
C15_Witness ==
    /\ uploadPath = <<"/", "u", "/", "p">>
    /\ \E w \in Workers :
          /\ answering(w, {"STAT"})
          /\ wk[w].pkt.Path = <<"/", "u", "/", ".", "/", "p">>
          /\ wk[w].resp = C15_Directory(wk[w].pkt, <<"/", "u", "/", "p">>)

\* the no-such-entry condition, bare or inside a path error
C16_NoSuchEntry(err) == err.kind \in {"Errno", "PathError"} /\ err.errno = "ENOENT"

\* a local permission-denied condition: EACCES ("permission denied") or
\* EPERM ("operation not permitted"), bare or inside a path error
C16_PermissionDenied(err) ==
    err.kind \in {"Errno", "PathError"} /\ err.errno \in {"EACCES", "EPERM"}

C16_Code(err) ==
    IF err = NoError THEN "OK"
    ELSE IF err = EOF THEN "EOF"
    ELSE IF C16_NoSuchEntry(err) THEN "NO_SUCH_FILE"
    ELSE IF C16_PermissionDenied(err) THEN "PERMISSION_DENIED"
    ELSE "FAILURE"

\* C16 as claimed: the status sendError builds depends on the error alone:
\* OK for no error, EOF for the end-of-stream sentinel, NO_SUCH_FILE for a
\* no-such-entry condition, PERMISSION_DENIED for a local permission-denied
\* condition, and FAILURE with the error's non-empty text for every other
\* error.
C16_Translation ==
    [][\A w \in Workers :
          at(w, "senderror") /\ wk'[w].pc = "send"
          => LET err == wk[w].err
                 r == wk'[w].resp
             IN  /\ r.kind = "STATUS"
                 /\ r.ID = wk[w].pkt.ID
                 /\ r.Code = C16_Code(err)
                 /\ r.Code = "FAILURE" => r.msg = err.text /\ r.msg # ""]_vars

\* the k-th response on the transport answers the k-th request read from it
C17_InRequestOrder ==
    \A k \in 1..Len(sent) : sent[k].kind # "VERSION" => sent[k].ID = k

\* C17: with the one worker the server starts, the k-th response written to
\* the transport answers the k-th request read from it: the worker writes
\* the response of request k when k-1 responses have been written.
C17_ResponsesInOrder ==
    /\ [](nWorkers = 1 => C17_InRequestOrder)
    /\ [][nWorkers = 1 => \A w \in Workers :
            sendStep(w) => /\ wk[w].pkt.ID = Len(sent) + 1
                           /\ C11_ResponseTo(wk[w].pkt, wk[w].resp)]_vars

\* two requests were read and answered, first the first and then the second
C17_Witness ==
    /\ nWorkers = 1
    /\ nrecv = 2
    /\ Len(sent) = 2
    /\ sent[1].kind = "STATUS" /\ sent[1].ID = 1
    /\ sent[2].kind = "NAME" /\ sent[2].ID = 2

\* the request is a virtual-directory open: a read-only open, or an opendir,
\* of the upload directory or one of its ancestors
C18_VirtualDirOpen(p) ==
    /\ p.type = "OPENDIR" \/ ssh_FXF_WRITE \notin p.Pflags
    /\ isUploadDirOrAncestor(Clean(p.Path))

\* the table holds one more handle, h, and every other handle as before
C18_OneHandleAdded(h) ==
    /\ h \notin DOMAIN openFiles
    /\ DOMAIN openFiles' = DOMAIN openFiles \cup {h}
    /\ \A g \in DOMAIN openFiles : openFiles'[g] = openFiles[g]
    /\ handleCount' = handleCount + 1
    /\ h = Itoa(handleCount')

\* directory metadata was added for h and for no other handle
C18_DirInfoAdded(h, name) ==
    /\ h \notin DOMAIN openDirs
    /\ DOMAIN openDirs' = DOMAIN openDirs \cup {h}
    /\ \A g \in DOMAIN openDirs : openDirs'[g] = openDirs[g]
    /\ openDirs'[h] \notin DOMAIN dirInfos
    /\ DOMAIN dirInfos' = DOMAIN dirInfos \cup {openDirs'[h]}
    /\ \A d \in DOMAIN dirInfos : dirInfos'[d] = dirInfos[d]
    /\ dirInfos'[openDirs'[h]] = [name |-> name, read |-> FALSE]

\* C18: the handler of open and opendir answers with an error status or with
\* a handle.  An error status leaves the handle table, the directory metadata
\* and the handle counter unchanged.  A handle answer adds exactly that one
\* handle and advances the counter by one, and it adds directory metadata
\* exactly when the request is a virtual-directory open.
C18_AllocateAfterOpen ==
    [][\A w \in Workers :
          handlerStep(w, {"OPEN", "OPENDIR"})
          => LET p == wk[w].pkt
                 r == wk'[w].resp
             IN  /\ r.ID = p.ID
                 /\ \/ r.kind = "STATUS" /\ r.Code # "OK"
                    \/ r.kind = "HANDLE"
                 /\ r.kind = "STATUS" => UNCHANGED table
                 /\ r.kind = "HANDLE"
                    => /\ C18_OneHandleAdded(r.Handle)
                       /\ IF C18_VirtualDirOpen(p)
                          THEN C18_DirInfoAdded(r.Handle, Clean(p.Path))
                          ELSE UNCHANGED <<openDirs, dirInfos>>]_vars

\* the open of /dev/null for an opendir of the upload directory failed: the
\* request is answered with an error and no handle exists
C18_Witness ==
    /\ uploadPath = <<"/", "u">>
    /\ \E w \in Workers :
          /\ answering(w, {"OPENDIR"})
          /\ wk[w].pkt.Path = <<"/", "u", "/">>
          /\ wk[w].resp = statusFromError(wk[w].pkt, PathError("EMFILE"))
    /\ openFiles = EmptyMap
    /\ openDirs = EmptyMap
    /\ dirInfos = EmptyMap
    /\ handleCount = 0

\* resp is a listing that carries the synthetic child entry of the root
C19_ChildListing(resp) ==
    /\ resp.kind = "NAME"
    /\ resp.Names = <<childDirName(<<"/">>)>>

\* the listings with the synthetic child entry written so far; the readdir
\* requests of the workload all name handle 1
C19_ChildListings == {k \in 1..Len(sent) : C19_ChildListing(sent[k])}

\* C19 as claimed: with more than one worker and the directory-listing hook
\* configured, no two workers have both read the emitted flag of the same
\* handle as false, and at most one response to the readdir requests on a
\* virtual-ancestor handle carries the synthetic child entry.
C19_ChildEmittedOnce ==
    nWorkers > 1 /\ readdirHook
    => /\ \A v, w \in Workers :
             at(v, "mark") /\ at(w, "mark") /\ wk[v].di = wk[w].di => v = w
       /\ Cardinality(C19_ChildListings) <= 1

\* C20 as claimed: with more than one worker, no I/O call of a handler (the
\* WriteAt of a write, the Readdir of a readdir) is made on a file that was
\* closed before the call.
C20_NoIOAfterClose ==
    nWorkers > 1 => \A i \in 1..Len(fileIO) : ~fileIO[i].closed

====
